---- MODULE Spec2Model ----
(***************************************************************************)
(* A model of the date-conversion bot: the calendar core                   *)
(* (src/date_conversion.py, src/age_calculation.py) and the handlers of    *)
(* src/bot.py that call into it.                                           *)
(*                                                                         *)
(* Python values are modelled as follows.  A datetime.date is a record     *)
(* [year, month, day]; None where a date is expected is NoDate; None where *)
(* a text is expected is the value None.  A call that may raise returns a  *)
(* record [exc, msg, date]: exc = "none" when it returned, otherwise the   *)
(* class of the exception raised and msg its str().                        *)
(***************************************************************************)
EXTENDS Integers, Sequences, FiniteSets, TLC

VARIABLES
    clock,      \* the date the system clock shows (datetime.date.today())
    lib_mode,   \* what the installed calendar packages do with a date outside their calendar
    call,       \* the last call into the core: its function, arguments and result
    user_data,  \* context.user_data of the chat: awaiting_date, input_mode, pending_date, reply_to_user
    replies,    \* the messages the handler of the last update sent
    update,     \* the last update handled: its kind and its text or callback data
    calls,      \* the calls into the core the handler of the last update made
    pending_messages,   \* the users whose message was forwarded to the admin
    ADMIN_CHAT_ID,      \* the admin's chat, or None when it is not configured
    direct_request      \* what became of the date kept in pending_date, whose
                        \* direct-<calendar> buttons are in the chat: "none",
                        \* "pending", "cancelled" or "completed"

session ==
    <<user_data, replies, update, calls, pending_messages, ADMIN_CHAT_ID, direct_request>>

vars ==
    <<clock, lib_mode, call, user_data, replies, update, calls, pending_messages,
      ADMIN_CHAT_ID, direct_request>>

-----------------------------------------------------------------------------
(* Python values *)

None == "None"

Date(y, m, d) == [year |-> y, month |-> m, day |-> d]

NoDate == Date(0, 0, 0)

Returned(dt) == [exc |-> "none", msg |-> "", date |-> dt]

Raised(cls, text) == [exc |-> cls, msg |-> text, date |-> NoDate]

\* Python's comparison of two tuples of integers: the first differing item
\* decides, and a proper prefix is smaller.
TupleLess(a, b) ==
    \/ \E i \in 1..Len(a) :
          /\ i <= Len(b)
          /\ a[i] < b[i]
          /\ \A j \in 1..(i - 1) : a[j] = b[j]
    \/ /\ Len(a) < Len(b)
       /\ \A j \in 1..Len(a) : a[j] = b[j]

-----------------------------------------------------------------------------
(* datetime.date of the standard library *)

MINYEAR == 1

MAXYEAR == 9999

is_leap(y) == (y % 4 = 0) /\ ((y % 100 # 0) \/ (y % 400 = 0))

days_in_month(y, m) ==
    IF m = 2 THEN (IF is_leap(y) THEN 29 ELSE 28)
    ELSE IF m \in {4, 6, 9, 11} THEN 30 ELSE 31

\* datetime.date(year, month, day): the constructor's range checks
datetime_date(y, m, d) ==
    IF y < MINYEAR \/ y > MAXYEAR THEN Raised("ValueError", "year is out of range")
    ELSE IF m < 1 \/ m > 12 THEN Raised("ValueError", "month must be in 1..12")
    ELSE IF d < 1 \/ d > days_in_month(y, m)
         THEN Raised("ValueError", "day is out of range for month")
    ELSE Returned(Date(y, m, d))

\* date.__gt__ / date.__lt__: dates compare as (year, month, day)
date_lt(a, b) == TupleLess(<<a.year, a.month, a.day>>, <<b.year, b.month, b.day>>)

date_gt(a, b) == date_lt(b, a)

date_le(a, b) == ~date_lt(b, a)

days_before_year(y) == (y - 1) * 365 + (y - 1) \div 4 - (y - 1) \div 100 + (y - 1) \div 400

\* the days of a common year before each month
DAYS_BEFORE_MONTH == <<0, 31, 59, 90, 120, 151, 181, 212, 243, 273, 304, 334>>

\* the days of year y before month m; past December the months count 31 days
RECURSIVE days_before_month(_, _)
days_before_month(y, m) ==
    IF m <= 1 THEN 0
    ELSE IF m <= 12 THEN DAYS_BEFORE_MONTH[m] + (IF m > 2 /\ is_leap(y) THEN 1 ELSE 0)
    ELSE days_before_month(y, m - 1) + days_in_month(y, m - 1)

\* date.toordinal(): 1 for 0001-01-01
toordinal(dt) == days_before_year(dt.year) + days_before_month(dt.year, dt.month) + dt.day

MaxOrdinal == days_before_year(MAXYEAR + 1)

\* date.fromordinal(n), for 1 <= n <= MaxOrdinal
\* the year of ordinal n, from an estimate at most one year off
year_of_ordinal(n, guess) ==
    IF days_before_year(guess) >= n THEN guess - 1
    ELSE IF days_before_year(guess + 1) < n THEN guess + 1
    ELSE guess

\* the month of the rest-th day of year y
month_of_day(y, rest) ==
    CHOOSE k \in 1..12 :
        /\ days_before_month(y, k) < rest
        /\ rest <= days_before_month(y, k) + days_in_month(y, k)

date_in_month(y, m, rest) == Date(y, m, rest - days_before_month(y, m))

date_in_year(y, rest) == date_in_month(y, month_of_day(y, rest), rest)

date_of_year(y, n) == date_in_year(y, n - days_before_year(y))

fromordinal(n) == date_of_year(year_of_ordinal(n, (n * 400) \div 146097 + 1), n)

\* date.weekday(): Monday is 0
weekday(dt) == (toordinal(dt) + 6) % 7

\* datetime.date.today()
date_today == clock

next_day(dt) == fromordinal(toordinal(dt) + 1)

-----------------------------------------------------------------------------
(* The calendar packages ethiopian_date and hijridate.  Their code is not    *)
(* part of the repository: the conversions are modelled from the            *)
(* specification (fixed-epoch arithmetic for the Ethiopian calendar, the    *)
(* arithmetical 30-year cycle for the Hijri calendar).  What a package does *)
(* with a date outside its calendar is not fixed by the callers: it raises  *)
(* ValueError, raises another exception, or carries the surplus days over   *)
(* into the following month.                                                *)

RejectsWithValueError == [kind |-> "raise", cls |-> "ValueError", msg |-> "date out of range"]

RejectsWithOtherError == [kind |-> "raise", cls |-> "OverflowError", msg |-> ""]

CarriesOver == [kind |-> "carry", cls |-> "none", msg |-> ""]

LibraryModes == {RejectsWithValueError, RejectsWithOtherError, CarriesOver}

\* ordinal of 1 Meskerem of Ethiopian year 1
EthiopicEpoch == 2796

\* ordinal of 1 Muharram of Hijri year 1
IslamicEpoch == 227015

eth_is_leap(y) == y % 4 = 3

eth_days_in_month(y, m) ==
    IF m \in 1..12 THEN 30
    ELSE IF m = 13 THEN (IF eth_is_leap(y) THEN 6 ELSE 5)
    ELSE 0

\* a date of the Ethiopian calendar
eth_legal(y, m, d) == y >= 1 /\ m \in 1..13 /\ d >= 1 /\ d <= eth_days_in_month(y, m)

eth_ordinal(y, m, d) == EthiopicEpoch - 1 + 365 * (y - 1) + y \div 4 + 30 * (m - 1) + d

\* the date of an ordinal the standard library can hold, or its range error
date_of_ordinal(n) ==
    IF n < 1 \/ n > MaxOrdinal THEN Raised("ValueError", "year is out of range")
    ELSE Returned(fromordinal(n))

\* mutant: the day count one day late
to_gregorian_off_by_one(y, m, d) ==
    IF ~eth_legal(y, m, d) /\ lib_mode.kind = "raise"
    THEN Raised(lib_mode.cls, lib_mode.msg)
    ELSE date_of_ordinal(eth_ordinal(y, m, d) + 1)

\* EthiopianDateConverter.to_gregorian(year, month, date)
to_gregorian(y, m, d) ==
    IF ~eth_legal(y, m, d) /\ lib_mode.kind = "raise"
    THEN Raised(lib_mode.cls, lib_mode.msg)
    ELSE date_of_ordinal(eth_ordinal(y, m, d))

\* the Ethiopian (year, month, day) of an ordinal
eth_in_month(y, m, n) == Date(y, m, n + 1 - eth_ordinal(y, m, 1))

eth_in_year(y, n) == eth_in_month(y, (n - eth_ordinal(y, 1, 1)) \div 30 + 1, n)

\* mutant: the epoch taken a day early, every date a day late
eth_of_ordinal_a_day_late(n) ==
    eth_in_year((4 * (n + 1 - EthiopicEpoch) + 1463) \div 1461, n + 1)

eth_of_ordinal(n) == eth_in_year((4 * (n - EthiopicEpoch) + 1463) \div 1461, n)

\* the ordinal of Gregorian (y, m, d), surplus days carried over
carried_ordinal(y, m, d) == days_before_year(y) + days_before_month(y, m) + d

\* EthiopianDateConverter.to_ethiopian(year, month, date)
to_ethiopian(y, m, d) ==
    IF datetime_date(y, m, d).exc # "none" /\ lib_mode.kind = "raise"
    THEN Raised(lib_mode.cls, lib_mode.msg)
    ELSE IF carried_ordinal(y, m, d) < EthiopicEpoch
    THEN Raised("ValueError", "year is out of range")
    ELSE Returned(eth_of_ordinal(carried_ordinal(y, m, d)))

hijri_is_leap(y) == (14 + 11 * y) % 30 < 11

hijri_days_in_month(y, m) ==
    IF m \notin 1..12 THEN 0
    ELSE IF m = 12 THEN (IF hijri_is_leap(y) THEN 30 ELSE 29)
    ELSE IF m % 2 = 1 THEN 30 ELSE 29

\* a date of the Hijri calendar
hijri_legal(y, m, d) == y >= 1 /\ m \in 1..12 /\ d >= 1 /\ d <= hijri_days_in_month(y, m)

hijri_ordinal(y, m, d) ==
    IslamicEpoch - 1 + (y - 1) * 354 + (3 + 11 * y) \div 30 + 29 * (m - 1) + m \div 2 + d

\* Hijri(year, month, day): the constructor, which keeps the triple
Hijri(y, m, d) ==
    IF ~hijri_legal(y, m, d) /\ lib_mode.kind = "raise"
    THEN Raised(lib_mode.cls, lib_mode.msg)
    ELSE Returned(Date(y, m, d))

\* Hijri(year, month, day).to_gregorian()
Hijri_to_gregorian(y, m, d) ==
    IF Hijri(y, m, d).exc # "none" THEN Hijri(y, m, d)
    ELSE date_of_ordinal(hijri_ordinal(y, m, d))

\* the Hijri (year, month, day) of an ordinal
hijri_in_month(y, m, n) == Date(y, m, n - hijri_ordinal(y, m, 1) + 1)

hijri_in_year(y, n) == hijri_in_month(y, (11 * (n - hijri_ordinal(y, 1, 1)) + 330) \div 325, n)

hijri_of_ordinal(n) == hijri_in_year((30 * (n - IslamicEpoch) + 10646) \div 10631, n)

\* Gregorian(year, month, day).to_hijri()
Gregorian_to_hijri(y, m, d) ==
    IF datetime_date(y, m, d).exc # "none" THEN datetime_date(y, m, d)
    ELSE IF toordinal(Date(y, m, d)) < IslamicEpoch
    THEN Raised("OverflowError", "date out of range")
    ELSE Returned(hijri_of_ordinal(toordinal(Date(y, m, d))))

-----------------------------------------------------------------------------
(* src/age_calculation.py: calculate_age *)

\* mutant: the birthday itself still counts as not reached (<= for <)
calculate_age_le(birth_date, today) ==
    LET t == IF today = NoDate THEN date_today ELSE today
        years == t.year - birth_date.year
    IN  IF ~TupleLess(<<birth_date.month, birth_date.day>>, <<t.month, t.day>>)
        THEN years - 1 ELSE years

\* mutant: the comparison the wrong way round
calculate_age_reversed(birth_date, today) ==
    LET t == IF today = NoDate THEN date_today ELSE today
        years == t.year - birth_date.year
    IN  IF TupleLess(<<birth_date.month, birth_date.day>>, <<t.month, t.day>>)
        THEN years - 1 ELSE years

calculate_age(birth_date, today) ==
    LET t == IF today = NoDate THEN date_today ELSE today
        years == t.year - birth_date.year
    IN  IF TupleLess(<<t.month, t.day>>, <<birth_date.month, birth_date.day>>)
        THEN years - 1 ELSE years

-----------------------------------------------------------------------------
(* src/date_conversion.py: validate_date *)

\* the pair (ok, reason) a validator returns; raised names an exception that
\* left the function instead
Result(ok, reason) == [ok |-> ok, reason |-> reason, raised |-> "none"]

Escaped(cls) == [ok |-> FALSE, reason |-> None, raised |-> cls]

\* the try block of validate_date: the constructor or conversion of the branch
validate_date_try(cal_type, y, m, d) ==
    IF cal_type = "greg" THEN datetime_date(y, m, d)
    ELSE IF cal_type = "eth" THEN to_gregorian(y, m, d)
    ELSE IF cal_type = "hijri" THEN Hijri(y, m, d)
    ELSE Returned(NoDate)

\* mutant: month and day handed to datetime.date in the wrong order
validate_date_swapped(cal_type, y, m, d) ==
    LET r == IF cal_type = "greg" THEN datetime_date(y, d, m)
             ELSE validate_date_try(cal_type, y, m, d)
    IN  IF r.exc = "none" THEN Result(TRUE, None)
        ELSE IF r.exc = "ValueError" THEN Result(FALSE, "Invalid date: " \o r.msg)
        ELSE Result(FALSE, "Unexpected error: " \o r.msg)

\* mutant: no except clause for exceptions other than ValueError
validate_date_no_catch_all(cal_type, y, m, d) ==
    LET r == validate_date_try(cal_type, y, m, d)
    IN  IF r.exc = "none" THEN Result(TRUE, None)
        ELSE IF r.exc = "ValueError" THEN Result(FALSE, "Invalid date: " \o r.msg)
        ELSE Escaped(r.exc)

validate_date(cal_type, y, m, d) ==
    LET r == validate_date_try(cal_type, y, m, d)
    IN  IF r.exc = "none" THEN Result(TRUE, None)
        ELSE IF r.exc = "ValueError" THEN Result(FALSE, "Invalid date: " \o r.msg)
        ELSE Result(FALSE, "Unexpected error: " \o r.msg)

-----------------------------------------------------------------------------
(* src/age_calculation.py: validate_birth_date, parse_birth_date *)

SupportedCalendars == {"greg", "eth", "hijri"}

\* datetime.date(g_date.year, g_date.month, g_date.day) of a conversion's result
as_date(g) ==
    IF g.exc # "none" THEN g ELSE datetime_date(g.date.year, g.date.month, g.date.day)

\* the Gregorian date of (calendar, year, month, day) as both functions build it
birth_date_of(calendar, year, month, day) ==
    IF calendar = "greg" THEN datetime_date(year, month, day)
    ELSE IF calendar = "eth" THEN as_date(to_gregorian(year, month, day))
    ELSE as_date(Hijri_to_gregorian(year, month, day))

\* mutant: no check of the birth date against today
validate_birth_date_unchecked(calendar, year, month, day) ==
    LET r == birth_date_of(calendar, year, month, day)
    IN  IF calendar \notin SupportedCalendars THEN Result(FALSE, "Unsupported calendar type")
        ELSE IF r.exc = "ValueError" THEN Result(FALSE, "Invalid date: " \o r.msg)
        ELSE IF r.exc # "none" THEN Result(FALSE, "Unexpected error: " \o r.msg)
        ELSE Result(TRUE, None)

\* mutant: a birth date of today counts as in the future (>= for >)
validate_birth_date_ge(calendar, year, month, day) ==
    LET r == birth_date_of(calendar, year, month, day)
    IN  IF calendar \notin SupportedCalendars THEN Result(FALSE, "Unsupported calendar type")
        ELSE IF r.exc = "ValueError" THEN Result(FALSE, "Invalid date: " \o r.msg)
        ELSE IF r.exc # "none" THEN Result(FALSE, "Unexpected error: " \o r.msg)
        ELSE IF ~date_lt(r.date, date_today)
             THEN Result(FALSE, "Birth date cannot be in the future")
        ELSE Result(TRUE, None)

validate_birth_date(calendar, year, month, day) ==
    LET r == birth_date_of(calendar, year, month, day)
    IN  IF calendar \notin SupportedCalendars THEN Result(FALSE, "Unsupported calendar type")
        ELSE IF r.exc = "ValueError" THEN Result(FALSE, "Invalid date: " \o r.msg)
        ELSE IF r.exc # "none" THEN Result(FALSE, "Unexpected error: " \o r.msg)
        ELSE IF date_gt(r.date, date_today)
             THEN Result(FALSE, "Birth date cannot be in the future")
        ELSE Result(TRUE, None)

\* parse_birth_date: the date, or the ValueError raised with the validator's reason
parse_birth_date(calendar, year, month, day) ==
    LET v == validate_birth_date(calendar, year, month, day)
    IN  IF ~v.ok THEN Raised("ValueError", v.reason)
        ELSE birth_date_of(calendar, year, month, day)

-----------------------------------------------------------------------------
(* Texts.  A text is the sequence of its characters. *)

NoneText == <<"None">>

DigitChars == <<"0", "1", "2", "3", "4", "5", "6", "7", "8", "9">>

IsDigit(c) == \E i \in 1..10 : DigitChars[i] = c

DigitValue(c) == (CHOOSE i \in 1..10 : DigitChars[i] = c) - 1

\* int(s) of a text of digits
RECURSIVE int(_)
int(s) ==
    IF s = <<>> THEN 0
    ELSE 10 * int(SubSeq(s, 1, Len(s) - 1)) + DigitValue(s[Len(s)])

IsSpace(c) == c \in {" ", "\n", "\t"}

\* str.strip()
RECURSIVE strip(_)
strip(s) ==
    IF s = <<>> THEN s
    ELSE IF IsSpace(s[1]) THEN strip(Tail(s))
    ELSE IF IsSpace(s[Len(s)]) THEN strip(SubSeq(s, 1, Len(s) - 1))
    ELSE s

LowerChar(c) ==
    CASE c = "A" -> "a" [] c = "C" -> "c" [] c = "D" -> "d" [] c = "H" -> "h"
      [] c = "M" -> "m" [] c = "W" -> "w" [] OTHER -> c

\* str.lower()
lower(s) == [i \in 1..Len(s) |-> LowerChar(s[i])]

\* str.split(sep) for a single character
RECURSIVE split(_, _)
split(s, sep) ==
    IF \A i \in 1..Len(s) : s[i] # sep THEN <<s>>
    ELSE LET k == CHOOSE i \in 1..Len(s) : s[i] = sep /\ \A j \in 1..(i - 1) : s[j] # sep
         IN  <<SubSeq(s, 1, k - 1)>> \o split(SubSeq(s, k + 1, Len(s)), sep)

\* re.match of a pattern ^...$ whose items are \d ("d") or a literal character:
\* $ also matches before a final newline
re_match(pattern, text) ==
    /\ \/ Len(text) = Len(pattern)
       \/ Len(text) = Len(pattern) + 1 /\ text[Len(text)] = "\n"
    /\ \A i \in 1..Len(pattern) :
          IF pattern[i] = "d" THEN IsDigit(text[i]) ELSE text[i] = pattern[i]

\* a pattern that takes the day first: ^\d{2}-\d{2}-\d{4}$
DATE_PATTERN_day_first == <<"d", "d", "-", "d", "d", "-", "d", "d", "d", "d">>

\* ^\d{4}-\d{2}-\d{2}$
DATE_PATTERN == <<"d", "d", "d", "d", "-", "d", "d", "-", "d", "d">>

\* the patterns of wrong_formats with the order in which the groups are suggested
wrong_formats ==
    << [pattern |-> <<"d", "d", "-", "d", "d", "-", "d", "d", "d", "d">>, sep |-> "-", order |-> <<3, 2, 1>>],
       [pattern |-> <<"d", "d", "d", "d", "/", "d", "d", "/", "d", "d">>, sep |-> "/", order |-> <<1, 2, 3>>],
       [pattern |-> <<"d", "d", "/", "d", "d", "/", "d", "d", "d", "d">>, sep |-> "/", order |-> <<3, 2, 1>>],
       [pattern |-> <<"d", "d", "-", "d", "d", "d", "d", "-", "d", "d">>, sep |-> "-", order |-> <<2, 1, 3>>] >>

\* fmt.format(*m.groups())
suggestion(text, f) ==
    LET g == split(text, f.sep)
    IN  g[f.order[1]] \o <<"-">> \o g[f.order[2]] \o <<"-">> \o g[f.order[3]]

-----------------------------------------------------------------------------
(* src/date_conversion.py: names and formatting *)

\* the seven names, Sunday first (transliterated)
ETH_WEEKDAYS == <<"Ehud", "Segno", "Maksegno", "Rebu", "Hamus", "Arb", "Kidame">>

HIJRI_WEEKDAYS ==
    <<"al-Ahad", "al-Ithnayn", "ath-Thulatha", "al-Arbi'a", "al-Khamis", "al-Jumu'ah", "as-Sabt">>

\* strftime('%A'), Monday first as date.weekday() counts
GREG_WEEKDAYS ==
    <<"Monday", "Tuesday", "Wednesday", "Thursday", "Friday", "Saturday", "Sunday">>

GREG_MONTHS ==
    <<"January", "February", "March", "April", "May", "June",
      "July", "August", "September", "October", "November", "December">>

\* the (Amharic, English) pairs; the Amharic name is written am:<English>
ETH_MONTHS ==
    << <<"am:Meskerem", "Meskerem">>, <<"am:Tikimt", "Tikimt">>, <<"am:Hidar", "Hidar">>,
       <<"am:Tahsas", "Tahsas">>, <<"am:Tir", "Tir">>, <<"am:Yekatit", "Yekatit">>,
       <<"am:Megabit", "Megabit">>, <<"am:Miyazya", "Miyazya">>, <<"am:Ginbot", "Ginbot">>,
       <<"am:Sene", "Sene">>, <<"am:Hamle", "Hamle">>, <<"am:Nehase", "Nehase">>,
       <<"am:Pagumen", "Pagumen">> >>

HIJRI_MONTHS ==
    <<"Muharram", "Safar", "Rabi al-Awwal", "Rabi al-Thani", "Jumada al-Awwal",
      "Jumada al-Thani", "Rajab", "Shaban", "Ramadan", "Shawwal", "Dhu al-Qadah",
      "Dhu al-Hijjah">>

\* a called function's text result, or the exception it raised
Text(t) == [exc |-> "none", msg |-> "", str |-> t]

Failed(r) == [exc |-> r.exc, msg |-> r.msg, str |-> <<>>]

\* list[i] of Python: a negative index counts from the end
list_item(list, i) ==
    IF i >= 0 /\ i < Len(list) THEN Text(list[i + 1])
    ELSE IF i < 0 /\ i >= 0 - Len(list) THEN Text(list[Len(list) + i + 1])
    ELSE Failed(Raised("IndexError", "list index out of range"))

get_ethiopian_weekday(eth_year, eth_month, eth_day) ==
    LET g_date == to_gregorian(eth_year, eth_month, eth_day)
    IN  IF g_date.exc # "none" THEN Failed(g_date)
        ELSE Text(ETH_WEEKDAYS[((weekday(g_date.date) + 1) % 7) + 1])

\* mutant: the index of date.weekday() taken as it is, Monday first
get_hijri_weekday_monday_first(hy, hm, hd) ==
    LET g_date == Hijri_to_gregorian(hy, hm, hd)
    IN  IF g_date.exc # "none" THEN Failed(g_date)
        ELSE Text(HIJRI_WEEKDAYS[weekday(g_date.date) + 1])

get_hijri_weekday(hy, hm, hd) ==
    LET g_date == Hijri_to_gregorian(hy, hm, hd)
    IN  IF g_date.exc # "none" THEN Failed(g_date)
        ELSE Text(HIJRI_WEEKDAYS[((weekday(g_date.date) + 1) % 7) + 1])

\* "<weekday>, <day> <month> <year>"
format_gregorian_date(date) ==
    Text(<<GREG_WEEKDAYS[weekday(date) + 1], date.day, GREG_MONTHS[date.month], date.year>>)

\* "<weekday>, <day> <am> (<en>) <year>"
format_ethiopian_date(eth_year, eth_month, eth_day) ==
    LET eth_am_en == list_item(ETH_MONTHS, eth_month - 1)
        eth_weekday == get_ethiopian_weekday(eth_year, eth_month, eth_day)
    IN  IF eth_am_en.exc # "none" THEN eth_am_en
        ELSE IF eth_weekday.exc # "none" THEN eth_weekday
        ELSE Text(<<eth_weekday.str, eth_day, eth_am_en.str[1], eth_am_en.str[2], eth_year>>)

\* "<weekday>, <day> <month> <year> AH"
format_hijri_date(hy, hm, hd) ==
    LET hijri_weekday == get_hijri_weekday(hy, hm, hd)
        name == list_item(HIJRI_MONTHS, hm - 1)
    IN  IF hijri_weekday.exc # "none" THEN hijri_weekday
        ELSE IF name.exc # "none" THEN name
        ELSE Text(<<hijri_weekday.str, hd, name.str, hy, "AH">>)

-----------------------------------------------------------------------------
(* src/bot.py: messages and process_date *)

\* None where a chat id is expected
NoUser == 0

\* update.effective_user.id, the chat the session belongs to
UserId == 1

calendar_names == [c \in {"greg", "eth", "hijri"} |->
    CASE c = "greg" -> "Gregorian" [] c = "eth" -> "Ethiopian" [] OTHER -> "Hijri"]

\* callback data, as its parts between the dashes
InputButtons == {<<"input", "greg">>, <<"input", "eth">>, <<"input", "hijri">>}

DirectButtons == {<<"direct", "greg">>, <<"direct", "eth">>, <<"direct", "hijri">>}

\* context.user_data with none of its keys set
EmptyUserData ==
    [awaiting_date |-> None, input_mode |-> None, pending_date |-> NoneText,
     reply_to_user |-> NoUser]

\* a sent message: the call that sent it, the chat it went to, its text as the
\* template followed by the values filled in, and the inline buttons under it
Message(via, chat, text, keyboard) ==
    [via |-> via, chat |-> chat, text |-> text, keyboard |-> keyboard]

\* an update: a command, a text message or a pressed button; none before the
\* first one
Update(kind, payload) == [kind |-> kind, payload |-> payload]

NoUpdate == Update("none", <<>>)

\* what a handler has done when it returns, or when it raises (raised is the
\* exception's class, msg its str())
Outcome(ud, sent, exc) ==
    [user_data |-> ud, replies |-> sent, raised |-> exc, msg |-> "", calls |-> <<>>]

\* a call into the core on the typed date: the function, the calendar and the
\* triple it is handed, and whether it accepted them (returned, for a
\* validator returned valid)
Call(fn, cal, y, m, d, ok) == [fn |-> fn, cal |-> cal, y |-> y, m |-> m, d |-> d, ok |-> ok]

\* the call added to those the handler has made
calling(o, fn, y, m, d, ok) ==
    [o EXCEPT !.calls = Append(@, Call(fn, o.user_data.input_mode, y, m, d, ok))]

\* await update.message.reply_text(...): update.message is None when the update
\* is a callback query
reply_text(o, has_message, text, keyboard) ==
    IF o.raised # "none" THEN o
    ELSE IF ~has_message
    THEN [o EXCEPT !.raised = "AttributeError",
                   !.msg = "'NoneType' object has no attribute 'reply_text'"]
    ELSE [o EXCEPT !.replies = Append(@, Message("reply_text", UserId, text, keyboard))]

\* (x.year, x.month, x.day)
ymd(x) == <<x.year, x.month, x.day>>

\* result, once both target dates and their formatted strings are at hand: the
\* first of the four calls that raised decides the exception
result_text(source, y, m, d, name1, r1, str1, name2, r2, str2) ==
    IF r1.exc # "none" THEN Failed(r1)
    ELSE IF str1.exc # "none" THEN str1
    ELSE IF r2.exc # "none" THEN Failed(r2)
    ELSE IF str2.exc # "none" THEN str2
    ELSE Text(<<"result", source, <<y, m, d>>,
                name1, ymd(r1.date), str1.str, name2, ymd(r2.date), str2.str>>)

greg_result(y, m, d, eth_result, hijri_date) ==
    result_text("Gregorian", y, m, d,
                "Ethiopian", eth_result,
                format_ethiopian_date(eth_result.date.year, eth_result.date.month,
                                      eth_result.date.day),
                "Hijri", hijri_date,
                format_hijri_date(hijri_date.date.year, hijri_date.date.month,
                                  hijri_date.date.day))

\* the branch mode == "greg"
convert_greg(y, m, d) ==
    greg_result(y, m, d, to_ethiopian(y, m, d), Gregorian_to_hijri(y, m, d))

eth_result_hijri(y, m, d, greg, hijri_date) ==
    result_text("Ethiopian", y, m, d,
                "Gregorian", greg, format_gregorian_date(greg.date),
                "Hijri", hijri_date,
                format_hijri_date(hijri_date.date.year, hijri_date.date.month,
                                  hijri_date.date.day))

\* greg: datetime.date(gy, gm, gd) of the converted date
eth_result_greg(y, m, d, greg) ==
    eth_result_hijri(y, m, d, greg,
                     Gregorian_to_hijri(greg.date.year, greg.date.month, greg.date.day))

\* the branch mode == "eth"
convert_eth(y, m, d) == eth_result_greg(y, m, d, as_date(to_gregorian(y, m, d)))

hijri_result_eth(y, m, d, greg, eth_result) ==
    result_text("Hijri", y, m, d,
                "Gregorian", greg, format_gregorian_date(greg.date),
                "Ethiopian", eth_result,
                format_ethiopian_date(eth_result.date.year, eth_result.date.month,
                                      eth_result.date.day))

hijri_result_greg(y, m, d, greg) ==
    hijri_result_eth(y, m, d, greg,
                     to_ethiopian(greg.date.year, greg.date.month, greg.date.day))

\* the branch mode == "hijri"
convert_hijri(y, m, d) == hijri_result_greg(y, m, d, as_date(Hijri_to_gregorian(y, m, d)))

\* the branch awaiting == "convert" up to the reply: result is bound in no
\* branch when the mode is none of the three
convert_result(mode, y, m, d) ==
    IF mode = "greg" THEN convert_greg(y, m, d)
    ELSE IF mode = "eth" THEN convert_eth(y, m, d)
    ELSE IF mode = "hijri" THEN convert_hijri(y, m, d)
    ELSE Failed(Raised("UnboundLocalError", "result"))

\* an exception raised inside the try block
raise(o, exc, msg) == [o EXCEPT !.raised = exc, !.msg = msg]

\* mutant: the session is left as it was after the reply went out
finished_left_pending(o) == o

\* awaiting_date and input_mode set to None after the reply went out
finished(o) ==
    IF o.raised # "none" THEN o
    ELSE [o EXCEPT !.user_data = [@ EXCEPT !.awaiting_date = None, !.input_mode = None]]

\* calculate_age(birth_date): it reads the clock after validate_birth_date and
\* parse_birth_date have read it
age_of(birth_date) ==
    CHOOSE age \in {calculate_age(b, NoDate)' : b \in {birth_date}} : TRUE

\* the branch awaiting == "age" after validate_birth_date returned valid
age_reply(o, has_message, y, m, d, birth_date) ==
    IF birth_date.exc # "none"
    THEN raise(calling(o, "parse_birth_date", y, m, d, FALSE), birth_date.exc, birth_date.msg)
    ELSE finished(reply_text(calling(calling(o, "parse_birth_date", y, m, d, TRUE),
                                     "calculate_age", y, m, d, TRUE),
                             has_message,
                             <<"You are years old", age_of(birth_date.date)>>, {}))

\* the branch awaiting == "age"
age_branch(o, has_message, y, m, d, valid, birth_date) ==
    IF ~valid.ok
    THEN reply_text(calling(o, "validate_birth_date", y, m, d, FALSE),
                    has_message, <<"Warning", valid.reason>>, {})
    ELSE age_reply(calling(o, "validate_birth_date", y, m, d, TRUE),
                   has_message, y, m, d, birth_date)

\* the conversion the branch of the mode calls on the typed date
conversion_of(mode) ==
    IF mode = "greg" THEN "to_ethiopian"
    ELSE IF mode = "eth" THEN "to_gregorian"
    ELSE "Hijri.to_gregorian"

\* the branch awaiting == "convert"
convert_branch(o, has_message, y, m, d, result) ==
    IF o.user_data.input_mode \notin SupportedCalendars
    THEN raise(o, result.exc, result.msg)
    ELSE IF result.exc # "none"
    THEN raise(calling(o, conversion_of(o.user_data.input_mode), y, m, d, FALSE),
               result.exc, result.msg)
    ELSE finished(reply_text(calling(o, conversion_of(o.user_data.input_mode), y, m, d, TRUE),
                             has_message, result.str, {}))

\* the try block once y, m, d are parsed (each call into the core is
\* evaluated once, its value bound to valid, birth_date or result)
try_block(o, has_message, y, m, d) ==
    IF o.user_data.awaiting_date = "age"
    THEN CHOOSE tried \in
            {age_branch(o, has_message, y, m, d, valid, birth_date) :
                valid \in {validate_birth_date(o.user_data.input_mode, y, m, d)},
                birth_date \in {parse_birth_date(o.user_data.input_mode, y, m, d)}} : TRUE
    ELSE CHOOSE tried \in
            {convert_branch(o, has_message, y, m, d, result) :
                result \in {convert_result(o.user_data.input_mode, y, m, d)}} : TRUE

\* except Exception as e: the reply with str(e)
except_clause(tried, has_message) ==
    IF tried.raised = "none" THEN tried
    ELSE reply_text(raise(tried, "none", ""), has_message,
                    <<"Error processing date", tried.msg>>, {})

\* y, m, d = map(int, text.split("-"))
process_parts(o, has_message, parts) ==
    CHOOSE done \in
        {except_clause(tried, has_message) :
            tried \in {try_block(o, has_message,
                                 int(parts[1]), int(parts[2]), int(parts[3]))}} : TRUE

\* process_date once text is bound
process_text(o, has_message, text) ==
    IF ~re_match(DATE_PATTERN, text)
    THEN reply_text(o, has_message, <<"Please use YYYY-MM-DD format">>, {})
    ELSE IF o.user_data.input_mode = None
            \/ o.user_data.awaiting_date \notin {"convert", "age"}
    THEN o
    ELSE process_parts(o, has_message, split(text, "-"))

\* process_date(update, context, override_text)
process_date(ud, has_message, message_text, override_text) ==
    IF override_text # NoneText /\ override_text # <<>>
    THEN process_text(Outcome(ud, <<>>, "none"), has_message, override_text)
    ELSE IF ~has_message
    THEN raise(Outcome(ud, <<>>, "none"), "AttributeError",
               "'NoneType' object has no attribute 'text'")
    ELSE process_text(Outcome(ud, <<>>, "none"), has_message, strip(message_text))

-----------------------------------------------------------------------------
(* src/bot.py: the handlers *)

CancelWords == {<<"c", "a", "n", "c", "e", "l">>, <<"/", "c", "a", "n", "c", "e", "l">>}

ConvertWords == {<<"c", "o", "n", "v", "e", "r", "t", " ", "d", "a", "t", "e">>, <<"c", "o", "n", "v", "e", "r", "t">>}

AgeWords == {<<"c", "a", "l", "c", "u", "l", "a", "t", "e", " ", "a", "g", "e">>, <<"a", "g", "e">>}

MessageWords == {<<"w", "r", "i", "t", "e", " ", "a", " ", "m", "e", "s", "s", "a", "g", "e">>, <<"m", "e", "s", "s", "a", "g", "e">>}

MenuWords == {<<"m", "e", "n", "u">>, <<"/", "m", "e", "n", "u">>}

HelpWords == {<<"h", "e", "l", "p">>, <<"/", "h", "e", "l", "p">>}

\* sanitize_message(text): the cut to 2000 characters (the two patterns it
\* removes need more than 11 characters)
sanitize_message(text) == SubSeq(text, 1, IF Len(text) < 2000 THEN Len(text) ELSE 2000)

\* mutant: the calendar chosen for the cancelled operation is kept
cancel_keeps_mode(ud) ==
    IF ud.awaiting_date # None
    THEN reply_text(Outcome([ud EXCEPT !.awaiting_date = None, !.reply_to_user = NoUser],
                            <<>>, "none"),
                    TRUE, <<"Operation cancelled.">>, {})
    ELSE reply_text(Outcome(ud, <<>>, "none"), TRUE, <<"No operation to cancel.">>, {})

cancel(ud) ==
    IF ud.awaiting_date # None
    THEN reply_text(Outcome([ud EXCEPT !.awaiting_date = None, !.input_mode = None,
                                       !.reply_to_user = NoUser], <<>>, "none"),
                    TRUE, <<"Operation cancelled.">>, {})
    ELSE reply_text(Outcome(ud, <<>>, "none"), TRUE, <<"No operation to cancel.">>, {})

menu(ud) == reply_text(Outcome(ud, <<>>, "none"), TRUE, <<"Date Converter Bot Menu">>, {})

help_command(ud) == reply_text(Outcome(ud, <<>>, "none"), TRUE, <<"How to use this bot">>, {})

\* the first of wrong_formats the text matches, 0 when it matches none
wrong_format_of(text) ==
    IF \E i \in 1..Len(wrong_formats) : re_match(wrong_formats[i].pattern, text)
    THEN CHOOSE i \in 1..Len(wrong_formats) :
            /\ re_match(wrong_formats[i].pattern, text)
            /\ \A j \in 1..(i - 1) : ~re_match(wrong_formats[j].pattern, text)
    ELSE 0

\* the branch awaiting_date == "message" of handle_text
forward_to_admin(ud, text, delivered) ==
    LET after == [ud EXCEPT !.awaiting_date = None]
        sent == Message("send_message", ADMIN_CHAT_ID,
                        <<"Message from", UserId, sanitize_message(text)>>,
                        {<<"reply", UserId>>})
    IN  IF delivered
        THEN Outcome(after,
                     <<sent, Message("reply_text", UserId,
                                     <<"Your message has been sent to the admin.">>, {})>>,
                     "none")
        ELSE reply_text(Outcome(after, <<>>, "none"), TRUE,
                        <<"Failed to send your message">>, {})

\* the branch awaiting_date == "admin_reply" of handle_text
admin_reply(ud, text, delivered) ==
    LET target_user_id == ud.reply_to_user
        after == [ud EXCEPT !.awaiting_date = None, !.reply_to_user = NoUser]
        sent == Message("send_message", target_user_id,
                        <<"Reply from Admin", sanitize_message(text)>>, {})
    IN  IF target_user_id = NoUser
        THEN reply_text(Outcome(after, <<>>, "none"), TRUE, <<"No user selected for reply.">>, {})
        ELSE IF delivered
        THEN Outcome(after,
                     <<sent, Message("reply_text", UserId, <<"Reply sent to the user.">>, {})>>,
                     "none")
        ELSE reply_text(Outcome(after, <<>>, "none"), TRUE, <<"Failed to send reply">>, {})

\* handle_text(update, context)
handle_text(ud, message_text, delivered) ==
    LET text == strip(message_text)
        o == Outcome(ud, <<>>, "none")
    IN  IF lower(text) \in CancelWords THEN cancel(ud)
        ELSE IF ud.awaiting_date = None /\ re_match(DATE_PATTERN, text)
        THEN reply_text(Outcome([ud EXCEPT !.awaiting_date = "direct_convert",
                                           !.pending_date = text], <<>>, "none"),
                        TRUE, <<"You sent a date!">>, DirectButtons)
        ELSE IF ud.awaiting_date = None /\ wrong_format_of(text) # 0
        THEN reply_text(o, TRUE, <<"Did you mean",
                                   suggestion(text, wrong_formats[wrong_format_of(text)])>>, {})
        ELSE IF lower(text) \in ConvertWords
        THEN reply_text(Outcome([ud EXCEPT !.awaiting_date = "convert"], <<>>, "none"),
                        TRUE, <<"Select input calendar type:">>, InputButtons)
        ELSE IF lower(text) \in AgeWords
        THEN reply_text(Outcome([ud EXCEPT !.awaiting_date = "age"], <<>>, "none"),
                        TRUE, <<"Select your birthdate calendar type:">>, InputButtons)
        ELSE IF lower(text) \in MessageWords
        THEN IF ADMIN_CHAT_ID = NoUser
             THEN reply_text(o, TRUE, <<"Admin chat is not configured.">>, {})
             ELSE reply_text(Outcome([ud EXCEPT !.awaiting_date = "message"], <<>>, "none"),
                             TRUE, <<"Please type your message">>, {})
        ELSE IF ud.awaiting_date = "message" THEN forward_to_admin(ud, text, delivered)
        ELSE IF ud.awaiting_date = "admin_reply" THEN admin_reply(ud, text, delivered)
        ELSE IF ud.awaiting_date \in {"convert", "age"}
        THEN process_date(ud, TRUE, message_text, NoneText)
        ELSE IF lower(text) \in MenuWords THEN menu(ud)
        ELSE IF lower(text) \in HelpWords THEN help_command(ud)
        ELSE reply_text(o, TRUE, <<"Command not recognized. Use /help.">>, {})

\* whether handle_text records the sender in pending_messages
records_sender(ud, message_text) ==
    LET text == strip(message_text)
    IN  /\ lower(text) \notin CancelWords \cup ConvertWords \cup AgeWords \cup MessageWords
        /\ ud.awaiting_date = "message"

\* the lines after process_date in the branch direct-: reached when it returned
cleanup(processed) ==
    IF processed.raised # "none" THEN processed
    ELSE [processed EXCEPT !.user_data =
             [@ EXCEPT !.awaiting_date = None, !.input_mode = None,
                       !.pending_date = NoneText]]

\* button_handler(update, context)
button_handler(ud, data) ==
    IF data[1] = "input"
    THEN Outcome([ud EXCEPT !.input_mode = data[2]],
                 <<Message("edit_message_text", UserId,
                           <<"Input mode set to",
                             IF data[2] \in DOMAIN calendar_names
                             THEN calendar_names[data[2]] ELSE data[2]>>, {})>>, "none")
    ELSE IF data[1] = "direct"
    THEN IF ud.pending_date = NoneText \/ ud.pending_date = <<>>
         THEN Outcome([ud EXCEPT !.input_mode = data[2]],
                      <<Message("edit_message_text", UserId,
                                <<"No date found to process.">>, {})>>, "none")
         ELSE CHOOSE done \in
                 {cleanup(processed) :
                     processed \in {process_date([ud EXCEPT !.input_mode = data[2],
                                                            !.awaiting_date = "convert"],
                                                 FALSE, NoneText, ud.pending_date)}} : TRUE
    ELSE IF data[1] = "reply"
    THEN Outcome([ud EXCEPT !.awaiting_date = "admin_reply", !.reply_to_user = data[2]],
                 <<Message("send_message", UserId,
                           <<"Please type your reply to the user now", data[2]>>, {})>>,
                 "none")
    ELSE Outcome(ud, <<>>, "none")

today_text(today, eth_result, hijri_date) ==
    result_text("today", today.year, today.month, today.day,
                "Ethiopian", eth_result,
                format_ethiopian_date(eth_result.date.year, eth_result.date.month,
                                      eth_result.date.day),
                "Hijri", hijri_date,
                format_hijri_date(hijri_date.date.year, hijri_date.date.month,
                                  hijri_date.date.day))

\* the try block of start up to the reply: today's date in the three calendars
today_in_all_calendars(today) ==
    today_text(today, to_ethiopian(today.year, today.month, today.day),
               Gregorian_to_hijri(today.year, today.month, today.day))

\* the replies of start
start_replies(o, t) ==
    IF t.exc # "none"
    THEN reply_text(o, TRUE, <<"Failed to generate today's dates.">>, {})
    ELSE reply_text(reply_text(o, TRUE, <<"Today's Date in All Calendars", t.str,
                                          format_gregorian_date(date_today).str>>, {}),
                    TRUE, <<"Quick actions always available below">>, {})

\* start(update, context)
start == start_replies(Outcome(EmptyUserData, <<>>, "none"), today_in_all_calendars(date_today))

\* error_handler(update, context), run when a handler raises
error_handler(o) ==
    IF o.raised = "none" THEN o.replies
    ELSE Append(o.replies, Message("reply_text", UserId,
                                   <<"An unexpected error occurred.">>, {}))

-----------------------------------------------------------------------------
(* Bounds *)

\* how many days the clock advances in a behaviour
MaxTicks == 1

ClockStart == Date(2024, 2, 28)

ClockEnd == fromordinal(toordinal(ClockStart) + MaxTicks)

\* the years of the Gregorian dates that are converted and converted back
FirstYear == 1900

LastYear == 2100

RoundTripDates ==
    {Date(t[1], t[2], t[3]) : t \in
        {u \in (FirstYear..LastYear) \X (1..12) \X (1..31) :
            datetime_date(u[1], u[2], u[3]).exc = "none"}}

\* the arguments the validators are called with
MaxMonth == 14

MaxDay == 32

CalendarTags == {"greg", "eth", "hijri", "julian", "GREG"}

ValidatedYears == {-1, 0, 1, 1445, 1900, 2000, 2015, 2016, 2023, 2024, 9999, 10000}

AgeYears == {2000, 2001, 2023, 2024}

\* (month, day) pairs around a birthday, the leap day and the turn of the year
AgeMonthDays ==
    {<<1, 1>>, <<2, 28>>, <<2, 29>>, <<3, 1>>, <<3, 14>>, <<3, 15>>, <<3, 16>>, <<12, 31>>}

AgeDates ==
    {Date(t[1], t[2][1], t[2][2]) : t \in
        {u \in AgeYears \X AgeMonthDays : datetime_date(u[1], u[2][1], u[2][2]).exc = "none"}}

-----------------------------------------------------------------------------
(* The calls *)

NoCall ==
    [fn |-> "none", cal |-> "", y |-> 0, m |-> 0, d |-> 0,
     birth |-> NoDate, today |-> NoDate, clock |-> NoDate,
     origin |-> NoDate,
     ok |-> FALSE, reason |-> None, age |-> 0, date |-> NoDate, raised |-> "none",
     names |-> <<>>]

Tick ==
    /\ date_lt(clock, ClockEnd)
    /\ clock' = next_day(clock)
    /\ UNCHANGED <<lib_mode, call, session>>

\* calculate_age(birth_date, today), today possibly omitted (NoDate).  Calls
\* follow each other for one birth date.
CalculateAge(b, t) ==
    /\ call.fn = "none" \/ (call.fn = "calculate_age" /\ call.birth = b)
    /\ call' = [NoCall EXCEPT !.fn = "calculate_age", !.birth = b, !.today = t,
                              !.clock = clock, !.age = calculate_age(b, t)]
    /\ UNCHANGED <<clock, lib_mode, session>>

\* the process as it starts: nothing called, no chat heard from
InitCore ==
    /\ clock = ClockStart
    /\ lib_mode \in LibraryModes
    /\ call = NoCall
    /\ user_data = EmptyUserData
    /\ replies = <<>>
    /\ update = NoUpdate
    /\ calls = <<>>
    /\ pending_messages = {}
    /\ ADMIN_CHAT_ID = NoUser
    /\ direct_request = "none"

InitAge == InitCore

NextAge ==
    \/ Tick
    \/ \E b \in AgeDates, t \in AgeDates \cup {NoDate} : CalculateAge(b, t)

SpecAge == InitAge /\ [][NextAge]_vars

-----------------------------------------------------------------------------
(* Claims about calculate_age *)

\* the reference date a call of calculate_age used
Reference(c) == IF c.today = NoDate THEN c.clock ELSE c.today

BirthdayNotYetReached(b, r) ==
    r.month < b.month \/ (r.month = b.month /\ r.day < b.day)

\* C1: calculate_age(birth, reference) is reference.year - birth.year, less one
\* exactly when the reference's (month, day) is before the birth's; born
\* 2000-03-15, the age is 23 on 2024-03-14 and 24 on 2024-03-15 and 2024-03-16.
C1_AgeFormula ==
    call.fn = "calculate_age" =>
        LET b == call.birth
            r == Reference(call)
        IN  /\ call.age = (r.year - b.year) - (IF BirthdayNotYetReached(b, r) THEN 1 ELSE 0)
            /\ (b = Date(2000, 3, 15) /\ r = Date(2024, 3, 14)) => call.age = 23
            /\ (b = Date(2000, 3, 15) /\ r = Date(2024, 3, 15)) => call.age = 24
            /\ (b = Date(2000, 3, 15) /\ r = Date(2024, 3, 16)) => call.age = 24

C1_Witness ==
    /\ call.fn = "calculate_age"
    /\ call.birth = Date(2000, 3, 15)
    /\ call.today = Date(2024, 3, 15)
    /\ call.age = 24

\* C3: for one birth date, a later reference date never gives a smaller age.
C3_AgeMonotone ==
    [][(/\ call.fn = "calculate_age"
        /\ call'.fn = "calculate_age"
        /\ call'.birth = call.birth
        /\ date_le(Reference(call), Reference(call')))
       => call'.age >= call.age]_vars

\* a 29 February birth date seen from the next year's 28 February and 1 March
C3_Witness ==
    /\ call.fn = "calculate_age"
    /\ call.birth = Date(2000, 2, 29)
    /\ call.today = Date(2001, 3, 1)
    /\ call.age = 1

-----------------------------------------------------------------------------
(* Conversion there and back, as process_date converts a Gregorian date and *)
(* format_ethiopian_date converts the result back for its weekday.          *)

\* EthiopianDateConverter.to_ethiopian(y, m, d) on a Gregorian date
ToEthiopian(g) ==
    /\ LET r == to_ethiopian(g.year, g.month, g.day)
       IN  call' = [NoCall EXCEPT !.fn = "to_ethiopian", !.cal = "greg",
                                  !.y = g.year, !.m = g.month, !.d = g.day,
                                  !.origin = g, !.date = r.date, !.raised = r.exc]
    /\ UNCHANGED <<clock, lib_mode, session>>

\* EthiopianDateConverter.to_gregorian(ey, em, ed) on the date to_ethiopian returned
ToGregorian ==
    /\ call.fn = "to_ethiopian"
    /\ call.raised = "none"
    /\ LET e == call.date
           r == to_gregorian(e.year, e.month, e.day)
       IN  call' = [NoCall EXCEPT !.fn = "to_gregorian", !.cal = "eth",
                                  !.y = e.year, !.m = e.month, !.d = e.day,
                                  !.origin = call.origin, !.date = r.date, !.raised = r.exc]
    /\ UNCHANGED <<clock, lib_mode, session>>

NextConv ==
    \/ call.fn = "none" /\ \E g \in RoundTripDates : ToEthiopian(g)
    \/ ToGregorian

SpecConv == InitCore /\ [][NextConv]_vars

\* C4: a Gregorian date from 1900-01-01 to 2100-12-31 converted to the
\* Ethiopian calendar is a date of that calendar, and converted back it is the
\* date that was started from.
C4_EthiopianRoundTrip ==
    /\ call.fn = "to_ethiopian" =>
           /\ call.raised = "none"
           /\ eth_legal(call.date.year, call.date.month, call.date.day)
    /\ call.fn = "to_gregorian" =>
           /\ call.raised = "none"
           /\ call.date = call.origin

\* the sixth day of the 13th month, back on the eve of the Ethiopian new year
C4_Witness ==
    /\ call.fn = "to_gregorian"
    /\ call.origin = Date(2023, 9, 11)
    /\ <<call.y, call.m, call.d>> = <<2015, 13, 6>>
    /\ call.date = Date(2023, 9, 11)

-----------------------------------------------------------------------------
(* The validators, called with any calendar tag and any integers *)

ValidateDate(cal, y, m, d) ==
    /\ LET v == validate_date(cal, y, m, d)
       IN  call' = [NoCall EXCEPT !.fn = "validate_date", !.cal = cal,
                                  !.y = y, !.m = m, !.d = d, !.clock = clock,
                                  !.ok = v.ok, !.reason = v.reason, !.raised = v.raised]
    /\ UNCHANGED <<clock, lib_mode, session>>

ValidateBirthDate(cal, y, m, d) ==
    /\ LET v == validate_birth_date(cal, y, m, d)
       IN  call' = [NoCall EXCEPT !.fn = "validate_birth_date", !.cal = cal,
                                  !.y = y, !.m = m, !.d = d, !.clock = clock,
                                  !.ok = v.ok, !.reason = v.reason, !.raised = v.raised]
    /\ UNCHANGED <<clock, lib_mode, session>>

NextValid ==
    \/ Tick
    \/ /\ call.fn = "none"
       /\ \E cal \in CalendarTags, y \in ValidatedYears, m \in 0..MaxMonth, d \in 0..MaxDay :
              \/ ValidateDate(cal, y, m, d)
              \/ ValidateBirthDate(cal, y, m, d)

SpecValid == InitCore /\ [][NextValid]_vars

-----------------------------------------------------------------------------
(* Claims about the validators *)

Validators == {"validate_date", "validate_birth_date"}

\* the length of a month of the Gregorian calendar, by the leap-year rule
GregorianMonthLength(y, m) ==
    LET leap == (y % 400 = 0) \/ (y % 4 = 0 /\ y % 100 # 0)
    IN  IF m = 2 /\ leap THEN 29
        ELSE <<31, 28, 31, 30, 31, 30, 31, 31, 30, 31, 30, 31>>[m]

RealGregorian(y, m, d) == m \in 1..12 /\ d \in 1..GregorianMonthLength(y, m)

\* C7 as stated: validate_date("greg", y, m, d) is valid exactly when m is in
\* 1..12 and d is in 1..length of month m of year y, whatever the year.
C7_GregorianAnyYear ==
    (call.fn = "validate_date" /\ call.cal = "greg") =>
        (call.ok <=> RealGregorian(call.y, call.m, call.d))

\* C7 amended: for a year from 1 to 9999, validate_date("greg", y, m, d) is
\* valid exactly when m is in 1..12 and d is in 1..length of month m of year
\* y; for any other year it is invalid.
C7_GregorianLegal ==
    (call.fn = "validate_date" /\ call.cal = "greg") =>
        /\ call.y \in 1..9999 => (call.ok <=> RealGregorian(call.y, call.m, call.d))
        /\ call.y \notin 1..9999 => ~call.ok
        /\ <<call.y, call.m, call.d>> = <<2023, 2, 29>> => ~call.ok
        /\ <<call.y, call.m, call.d>> = <<2024, 2, 29>> => call.ok

C7_Witness ==
    /\ call.fn = "validate_date"
    /\ call.cal = "greg"
    /\ <<call.y, call.m, call.d>> = <<2024, 2, 29>>
    /\ call.ok

FutureReason == "Birth date cannot be in the future"

\* a date of the calendar the tag names
Legal(cal, y, m, d) ==
    IF cal = "greg" THEN RealGregorian(y, m, d)
    ELSE IF cal = "eth" THEN eth_legal(y, m, d)
    ELSE cal = "hijri" /\ hijri_legal(y, m, d)

\* the day number of the Gregorian equivalent of a legal date
EquivalentOrdinal(cal, y, m, d) ==
    IF cal = "greg" THEN carried_ordinal(y, m, d)
    ELSE IF cal = "eth" THEN eth_ordinal(y, m, d)
    ELSE hijri_ordinal(y, m, d)

\* C8 as stated: for a legal date of any of the three calendars,
\* validate_birth_date answers with the future-date reason exactly when the
\* Gregorian equivalent is after the current date.
C8_FutureAnyLegalDate ==
    (call.fn = "validate_birth_date" /\ Legal(call.cal, call.y, call.m, call.d)) =>
        ((~call.ok /\ call.reason = FutureReason)
            <=> EquivalentOrdinal(call.cal, call.y, call.m, call.d) > toordinal(call.clock))

\* the conversion of a date to the Gregorian calendar, by its calendar's package
Converted(cal, y, m, d) ==
    IF cal = "greg" THEN datetime_date(y, m, d)
    ELSE IF cal = "eth" THEN to_gregorian(y, m, d)
    ELSE Hijri_to_gregorian(y, m, d)

\* C8 amended: for a legal date of one of the three calendars that converts to a
\* Gregorian date of the years 1 to 9999, validate_birth_date answers with the
\* future-date reason exactly when that Gregorian date is after the current
\* date, and accepts the date otherwise (today included); a legal date whose
\* equivalent lies outside the years 1 to 9999, and a Gregorian date that does
\* not exist, are rejected with another reason.
C8_FutureBirthDate ==
    call.fn = "validate_birth_date" =>
        LET g == Converted(call.cal, call.y, call.m, call.d)
            n == EquivalentOrdinal(call.cal, call.y, call.m, call.d)
            legal == Legal(call.cal, call.y, call.m, call.d)
        IN  /\ (legal /\ g.exc = "none") =>
                   /\ toordinal(g.date) = n
                   /\ (~call.ok /\ call.reason = FutureReason) <=> n > toordinal(call.clock)
                   /\ (call.ok /\ call.reason = None) <=> n <= toordinal(call.clock)
            /\ (legal /\ n \notin 1..MaxOrdinal) =>
                   ~call.ok /\ call.reason \notin {FutureReason, None}
            /\ (call.cal = "greg" /\ ~legal) =>
                   ~call.ok /\ call.reason \notin {FutureReason, None}

\* a birth date of today, in the Ethiopian calendar, is accepted
C8_Witness ==
    /\ call.fn = "validate_birth_date"
    /\ call.cal = "eth"
    /\ call.clock = Date(2024, 2, 29)
    /\ eth_ordinal(call.y, call.m, call.d) = toordinal(call.clock)
    /\ call.ok

\* C9: with a calendar tag other than "greg", "eth" and "hijri", validate_date
\* and validate_birth_date both return ok = false with the unsupported-calendar
\* reason.
C9_UnsupportedCalendar ==
    (call.fn \in Validators /\ call.cal \notin SupportedCalendars) =>
        (~call.ok /\ call.reason = "Unsupported calendar type")

\* C10: validate_date and validate_birth_date return a pair (ok, reason) for
\* every tag and every integers: no exception leaves them, ok = true comes
\* with no reason and ok = false with a non-empty text.
C10_ErrorsAreValues ==
    call.fn \in Validators =>
        /\ call.raised = "none"
        /\ call.ok => call.reason = None
        /\ ~call.ok => (call.reason # None /\ Len(call.reason) > 0)

\* the package raised an exception that is no ValueError and has no message
C10_Witness ==
    /\ call.fn = "validate_date"
    /\ call.cal = "eth"
    /\ <<call.y, call.m, call.d>> = <<2016, 13, 6>>
    /\ lib_mode = RejectsWithOtherError
    /\ ~call.ok
    /\ call.reason = "Unexpected error: "

-----------------------------------------------------------------------------
(* The bot: one chat, its updates handled one after the other *)

\* the texts the user sends
Texts ==
    { <<"C", "a", "n", "c", "e", "l">>,
      <<"C", "o", "n", "v", "e", "r", "t", " ", "D", "a", "t", "e">>,
      <<"C", "a", "l", "c", "u", "l", "a", "t", "e", " ", "A", "g", "e">>,
      <<"W", "r", "i", "t", "e", " ", "a", " ", "m", "e", "s", "s", "a", "g", "e">>,
      <<"M", "e", "n", "u">>,
      <<"h", "e", "l", "l", "o">>,
      <<"2", "0", "2", "4", "-", "0", "2", "-", "2", "9">>,
      <<"1", "4", "4", "5", "-", "0", "8", "-", "1", "9">>,
      <<"2", "0", "1", "6", "-", "1", "3", "-", "0", "6">>,
      <<" ", "2", "0", "1", "6", "-", "0", "6", "-", "2", "1", "\n">>,
      <<"2", "9", "-", "0", "2", "-", "2", "0", "2", "4">> }

\* the handler's effects on the session (h: what the handler, run once, did)
Handled(o) ==
    \E h \in {o} :
        /\ user_data' = h.user_data
        /\ replies' = error_handler(h)
        /\ calls' = h.calls

\* midnight may pass while a birth date is handled, between the reads of the
\* clock; while any other update is handled it is a Tick before or after it
ClockMayAdvance ==
    \/ clock' = clock
    \/ /\ user_data.awaiting_date = "age"
       /\ date_lt(clock, ClockEnd)
       /\ clock' = next_day(clock)

\* context.user_data.clear() drops the date kept in pending_date
Start ==
    /\ update' = Update("/start", <<>>)
    /\ Handled(start)
    /\ direct_request' = "none"
    /\ UNCHANGED <<clock, lib_mode, call, pending_messages, ADMIN_CHAT_ID>>

Menu ==
    /\ update' = Update("/menu", <<>>)
    /\ Handled(menu(user_data))
    /\ UNCHANGED <<clock, lib_mode, call, pending_messages, ADMIN_CHAT_ID, direct_request>>

Help ==
    /\ update' = Update("/help", <<>>)
    /\ Handled(help_command(user_data))
    /\ UNCHANGED <<clock, lib_mode, call, pending_messages, ADMIN_CHAT_ID, direct_request>>

\* what becomes of the date kept in pending_date when cancel runs
cancelled_request(ud) ==
    IF ud.awaiting_date = "direct_convert" THEN "cancelled" ELSE direct_request

\* ... when handle_text handles the text: cancelled by the word, or a new date
\* kept and its buttons sent
request_after_text(ud, message_text) ==
    IF lower(strip(message_text)) \in CancelWords THEN cancelled_request(ud)
    ELSE IF ud.awaiting_date = None /\ re_match(DATE_PATTERN, strip(message_text))
    THEN "pending"
    ELSE direct_request

\* ... when button_handler handles the button: completed when the lines after
\* process_date were reached, which set pending_date to None
request_after_button(ud, data, after) ==
    IF data[1] = "direct" /\ ud.pending_date # NoneText /\ after.pending_date = NoneText
    THEN "completed"
    ELSE direct_request

Cancel ==
    /\ update' = Update("/cancel", <<>>)
    /\ Handled(cancel(user_data))
    /\ direct_request' = cancelled_request(user_data)
    /\ UNCHANGED <<clock, lib_mode, call, pending_messages, ADMIN_CHAT_ID>>

\* delivered: whether context.bot.send_message to the other chat succeeds, a
\* choice only where handle_text sends one
HandleText(message_text, delivered) ==
    /\ delivered \/ user_data.awaiting_date \in {"message", "admin_reply"}
    /\ ClockMayAdvance
    /\ update' = Update("text", message_text)
    /\ Handled(handle_text(user_data, message_text, delivered))
    /\ pending_messages' = IF records_sender(user_data, message_text)
                           THEN pending_messages \cup {UserId} ELSE pending_messages
    /\ direct_request' = request_after_text(user_data, message_text)
    /\ UNCHANGED <<lib_mode, call, ADMIN_CHAT_ID>>

\* The buttons of earlier messages stay in the chat, also those sent before the
\* process started: any of them may be pressed at any time.  A reply button is
\* in the chat only when it is the admin's.
ButtonHandler(data) ==
    /\ data[1] = "reply" => ADMIN_CHAT_ID = UserId
    /\ update' = Update("callback", data)
    /\ Handled(button_handler(user_data, data))
    /\ direct_request' = request_after_button(user_data, data, user_data')
    /\ UNCHANGED <<clock, lib_mode, call, pending_messages, ADMIN_CHAT_ID>>

Init ==
    /\ clock = ClockStart
    /\ lib_mode \in LibraryModes
    /\ call = NoCall
    /\ user_data = EmptyUserData
    /\ replies = <<>>
    /\ update = NoUpdate
    /\ calls = <<>>
    /\ pending_messages = {}
    /\ ADMIN_CHAT_ID \in {NoUser, UserId}
    /\ direct_request = "none"

Next ==
    \/ Tick
    \/ Start
    \/ Menu
    \/ Help
    \/ Cancel
    \/ \E message_text \in Texts, delivered \in BOOLEAN : HandleText(message_text, delivered)
    \/ \E data \in InputButtons \cup DirectButtons \cup {<<"reply", UserId>>} : ButtonHandler(data)

Spec == Init /\ [][Next]_vars

-----------------------------------------------------------------------------
(* Claims about the age flow of the bot *)

\* the ages the replies of the last update show
AgeShown ==
    {replies[i].text[2] : i \in {j \in 1..Len(replies) : replies[j].text[1] = "You are years old"}}

\* the reference dates handed to calculate_age: none (the clock) or a later day
ReferenceDates == {NoDate, ClockEnd, Date(2024, 12, 31)}

\* C2: the age is never negative.  For every birth date not after the
\* reference date calculate_age returns at least 0, and every age the bot
\* shows (after validate_birth_date passed and parse_birth_date returned the
\* date, computed against the clock) is at least 0.
C2_AgeNeverNegative ==
    /\ \A b \in AgeDates, t \in ReferenceDates :
          date_le(b, IF t = NoDate THEN date_today ELSE t) => calculate_age(b, t) >= 0
    /\ \A age \in AgeShown : age >= 0

\* C2 witness: the bot shows the age 0 for a birth date which is the day the
\* clock shows, where calculate_age returns 0 as well
C2_Witness ==
    /\ 0 \in AgeShown
    /\ user_data.awaiting_date = None
    /\ \E b \in AgeDates : b = date_today /\ calculate_age(b, NoDate) = 0

-----------------------------------------------------------------------------
(* Claims about the order of the calls process_date makes *)

\* the functions that convert a date or derive something from it
ConversionCalls ==
    {"to_ethiopian", "to_gregorian", "Hijri.to_gregorian", "parse_birth_date", "calculate_age"}

\* C11: validate, then convert, then format or derive.  In every request
\* process_date handles, each call of a conversion or deriving function on
\* (calendar, y, m, d) comes after a call of a validator on the same calendar
\* and the same y, m, d that returned valid.
C11_ValidatedBeforeConverted ==
    \A i \in 1..Len(calls) :
        calls[i].fn \in ConversionCalls =>
            \E j \in 1..(i - 1) :
                /\ calls[j].fn \in Validators
                /\ calls[j].ok
                /\ <<calls[j].cal, calls[j].y, calls[j].m, calls[j].d>>
                       = <<calls[i].cal, calls[i].y, calls[i].m, calls[i].d>>

-----------------------------------------------------------------------------
(* Claims about single updates: what the handler of one update does to the
   session it finds *)

\* the step handles the text message that update' holds
TextHandled ==
    /\ update'.kind = "text"
    /\ \E delivered \in BOOLEAN : HandleText(update'.payload, delivered)

\* the step handles the pressed button that update' holds
ButtonPressed ==
    /\ update'.kind = "callback"
    /\ ButtonHandler(update'.payload)

\* four digits, hyphen, two digits, hyphen, two digits
MatchesDateSyntax(text) ==
    /\ Len(text) = 10
    /\ \A i \in 1..10 : IF i \in {5, 8} THEN text[i] = "-" ELSE IsDigit(text[i])

\* the format warning is among the messages sent to the user
FormatWarned(sent) ==
    \E i \in 1..Len(sent) :
        sent[i].chat = UserId /\ sent[i].text = <<"Please use YYYY-MM-DD format">>

\* the words handle_text takes as a request whatever the session awaits
RequestWords == CancelWords \cup ConvertWords \cup AgeWords \cup MessageWords

\* the core is called only on a text of the syntax YYYY-MM-DD, typed or replayed
CoreCalledOnDateSyntax ==
    /\ (calls' # <<>> /\ TextHandled) => MatchesDateSyntax(strip(update'.payload))
    /\ (calls' # <<>> /\ ButtonPressed) => MatchesDateSyntax(user_data.pending_date)

\* a text is typed while a date is awaited and it has not the syntax
OtherTextTyped ==
    /\ update'.kind = "text"
    /\ user_data.awaiting_date \in {"convert", "age"}
    /\ ~MatchesDateSyntax(strip(update'.payload))
    /\ TextHandled

\* C13 as stated: any text handed to validation, conversion or age functions,
\* typed in convert or age state or replayed from pending_date by a direct
\* button, has the syntax YYYY-MM-DD; every text typed in convert or age state
\* that has not gets the format warning and reaches no core function.
C13_SyntaxEnforced ==
    [][/\ CoreCalledOnDateSyntax
       /\ OtherTextTyped => (FormatWarned(replies') /\ calls' = <<>>)]_vars

\* C13 amended: any text handed to validation, conversion or age functions has
\* the syntax YYYY-MM-DD; a text typed in convert or age state that has not
\* reaches no core function, and it gets the format warning unless it is one of
\* the words cancel, convert (date), (calculate) age, (write a) message, which
\* are taken as requests and answered as such.
C13_SyntaxEnforcedButRequests ==
    [][/\ CoreCalledOnDateSyntax
       /\ OtherTextTyped =>
             /\ calls' = <<>>
             /\ lower(strip(update'.payload)) \notin RequestWords => FormatWarned(replies')
             /\ lower(strip(update'.payload)) \in RequestWords => ~FormatWarned(replies')]_vars

\* C13 witness: 29-02-2024 typed while a date is awaited under a chosen
\* calendar got the format warning and no core function was called
C13_Witness ==
    /\ update = Update("text", <<"2", "9", "-", "0", "2", "-", "2", "0", "2", "4">>)
    /\ user_data.awaiting_date \in {"convert", "age"}
    /\ user_data.input_mode \in SupportedCalendars
    /\ FormatWarned(replies)
    /\ calls = <<>>

-----------------------------------------------------------------------------
(* Claims about the reference date of the future-date check *)

\* the birth dates around the days the clock shows
LeapDayBirthDates == {<<y, 2, d>> : y \in {2023, 2024}, d \in {27, 28, 29}}

\* C14: the future-date check depends on its inputs only.  Two runs of
\* validate_birth_date with the same calendar, year, month and day return the
\* same result whatever the system clock reads: the result is the same before
\* and after the clock moves.
C14_ClockIndependent ==
    [][\A cal \in SupportedCalendars, b \in LeapDayBirthDates :
          validate_birth_date(cal, b[1], b[2], b[3])'
              = validate_birth_date(cal, b[1], b[2], b[3])]_vars

-----------------------------------------------------------------------------
(* The weekday names of one day, as process_date formats a Gregorian date in
   the two other calendars *)

\* the name in names[1] when the first call raised nothing, and in names[2]
\* that of the second
weekday_names(eth_weekday, hijri_weekday) ==
    IF eth_weekday.exc # "none" \/ hijri_weekday.exc # "none" THEN <<>>
    ELSE <<eth_weekday.str, hijri_weekday.str>>

weekdays_of(e, h) ==
    IF e.exc # "none" \/ h.exc # "none" THEN <<>>
    ELSE weekday_names(get_ethiopian_weekday(e.date.year, e.date.month, e.date.day),
                       get_hijri_weekday(h.date.year, h.date.month, h.date.day))

\* get_ethiopian_weekday and get_hijri_weekday on the Ethiopian and the Hijri
\* date of the Gregorian day g
Weekdays(g) ==
    /\ call' = [NoCall EXCEPT !.fn = "weekdays", !.cal = "greg",
                              !.y = g.year, !.m = g.month, !.d = g.day, !.origin = g,
                              !.names = weekdays_of(to_ethiopian(g.year, g.month, g.day),
                                                    Gregorian_to_hijri(g.year, g.month, g.day))]
    /\ UNCHANGED <<clock, lib_mode, session>>

NextWeekday == call.fn = "none" /\ \E g \in RoundTripDates : Weekdays(g)

SpecWeekday == InitCore /\ [][NextWeekday]_vars

\* the English names in the order of the two tables, Sunday first
SUNDAY_FIRST ==
    <<"Sunday", "Monday", "Tuesday", "Wednesday", "Thursday", "Friday", "Saturday">>

\* C15: weekday consistency.  For every Gregorian day g, with e its Ethiopian
\* and h its Hijri date, get_ethiopian_weekday(e) and get_hijri_weekday(h)
\* return the names at the same index of their Sunday-first tables; the index
\* is (Monday-zero weekday of g + 1) mod 7, and the day it names is the
\* Gregorian weekday of g.
C15_WeekdaysAgree ==
    call.fn = "weekdays" =>
        LET i == (weekday(call.origin) + 1) % 7
        IN  /\ call.names = <<ETH_WEEKDAYS[i + 1], HIJRI_WEEKDAYS[i + 1]>>
            /\ SUNDAY_FIRST[i + 1] = GREG_WEEKDAYS[weekday(call.origin) + 1]
            /\ i = (toordinal(call.origin) % 7)

\* C15 witness: 2024-09-11, a Wednesday, is Rebu and al-Arbi'a, the fourth
\* names of the two tables
C15_Witness ==
    /\ call.fn = "weekdays"
    /\ call.origin = Date(2024, 9, 11)
    /\ call.names = <<"Rebu", "al-Arbi'a">>
    /\ GREG_WEEKDAYS[weekday(call.origin) + 1] = "Wednesday"

-----------------------------------------------------------------------------
(* The convert flow on the Ethiopian New Year *)

\* the texts of a conversion of the Ethiopian New Year 2017 and of its
\* Gregorian date
AnchorTexts ==
    { <<"C", "o", "n", "v", "e", "r", "t", " ", "D", "a", "t", "e">>,
      <<"2", "0", "2", "4", "-", "0", "9", "-", "1", "1">>,
      <<"2", "0", "1", "7", "-", "0", "1", "-", "0", "1">> }

NextAnchor ==
    \/ \E message_text \in AnchorTexts : HandleText(message_text, TRUE)
    \/ \E data \in InputButtons \cup DirectButtons : ButtonHandler(data)

SpecAnchor == Init /\ [][NextAnchor]_vars

\* a reply shows the date a of the calendar source as the date b of target
Shown(source, a, target, b) ==
    \E i \in 1..Len(replies) :
        /\ replies[i].text[1] = "result"
        /\ <<replies[i].text[2], replies[i].text[3]>> = <<source, a>>
        /\ <<replies[i].text[4], replies[i].text[5]>> = <<target, b>>

\* the last update is the text, converted by process_date under the calendar
Converting(text, calendar) ==
    /\ update = Update("text", text)
    /\ calls # <<>>
    /\ calls[1].cal = calendar

\* C16: the Ethiopian New Year anchors the conversion in both directions.
\* Gregorian 2024-09-11 converts to Ethiopian 2017-01-01 and Ethiopian
\* 2017-01-01 to Gregorian 2024-09-11, and the convert flow on either date
\* displays the other.
C16_NewYearAnchor ==
    /\ to_ethiopian(2024, 9, 11) = Returned(Date(2017, 1, 1))
    /\ to_gregorian(2017, 1, 1) = Returned(Date(2024, 9, 11))
    /\ Converting(<<"2", "0", "2", "4", "-", "0", "9", "-", "1", "1">>, "greg") =>
          Shown("Gregorian", <<2024, 9, 11>>, "Ethiopian", <<2017, 1, 1>>)
    /\ Converting(<<"2", "0", "1", "7", "-", "0", "1", "-", "0", "1">>, "eth") =>
          Shown("Ethiopian", <<2017, 1, 1>>, "Gregorian", <<2024, 9, 11>>)

\* C16 witness: 2024-09-11 typed in the convert flow under the Gregorian
\* calendar is shown as 2017-01-01 of the Ethiopian calendar
C16_Witness ==
    /\ Converting(<<"2", "0", "2", "4", "-", "0", "9", "-", "1", "1">>, "greg")
    /\ Shown("Gregorian", <<2024, 9, 11>>, "Ethiopian", <<2017, 1, 1>>)
    /\ user_data.awaiting_date = None

-----------------------------------------------------------------------------
(* Claims about cancelling *)

\* the step handles /cancel, or the text Cancel or /cancel typed as a message
CancelRequested ==
    \/ update'.kind = "/cancel" /\ Cancel
    \/ /\ update'.kind = "text"
       /\ lower(strip(update'.payload)) \in CancelWords
       /\ TextHandled

\* the one reply of the step has this text
Replied(text) == replies' = <<Message("reply_text", UserId, text, {})>>

\* C17: cancel cancels any operation.  Whenever an operation is pending
\* (awaiting_date is convert, age, direct_convert, message or admin_reply),
\* /cancel or Cancel leaves awaiting_date, input_mode and reply_to_user None
\* and replies that the operation was cancelled; when none is pending, it
\* replies that there is nothing to cancel and changes no session state.
C17_CancelCancels ==
    [][CancelRequested =>
          IF user_data.awaiting_date
                \in {"convert", "age", "direct_convert", "message", "admin_reply"}
          THEN /\ user_data'.awaiting_date = None
               /\ user_data'.input_mode = None
               /\ user_data'.reply_to_user = NoUser
               /\ Replied(<<"Operation cancelled.">>)
          ELSE /\ user_data.awaiting_date = None
               /\ user_data' = user_data
               /\ pending_messages' = pending_messages
               /\ Replied(<<"No operation to cancel.">>)]_vars

\* C17 witness: an operation was cancelled by the text Cancel
C17_Witness ==
    /\ update = Update("text", <<"C", "a", "n", "c", "e", "l">>)
    /\ replies = <<Message("reply_text", UserId, <<"Operation cancelled.">>, {})>>
    /\ user_data.awaiting_date = None
    /\ user_data.input_mode = None
    /\ user_data.reply_to_user = NoUser
    /\ user_data.pending_date # NoneText

-----------------------------------------------------------------------------
(* Claims about the calendar an operation runs under *)

\* the last update is a request to convert a date or to calculate an age
OperationStarted ==
    /\ update.kind = "text"
    /\ lower(strip(update.payload)) \in ConvertWords \cup AgeWords
    /\ user_data.awaiting_date \in {"convert", "age"}

\* C18: the calendar is chosen after the operation is started.  A date typed
\* in convert or age state is processed only under an input_mode selected after
\* the most recent Convert Date or Calculate Age request: starting an operation
\* reuses no calendar selected earlier, so right after the request no calendar
\* is in effect under which a date would be processed.
C18_CalendarChosenAfterStart == OperationStarted => user_data.input_mode = None

-----------------------------------------------------------------------------
(* Claims about the session after a typed date *)

\* a date is typed as a text message while a date is awaited
DateTyped ==
    /\ update'.kind = "text"
    /\ user_data.awaiting_date \in {"convert", "age"}
    /\ MatchesDateSyntax(strip(update'.payload))
    /\ TextHandled

\* a conversion or an age is among the messages sent
ResultReplied(sent) ==
    \E i \in 1..Len(sent) : sent[i].text[1] \in {"result", "You are years old"}

\* the rejection of a birth date or the error of a conversion is among them
ErrorReplied(sent) ==
    \E i \in 1..Len(sent) : sent[i].text[1] \in {"Warning", "Error processing date"}

\* every call process_date made into the core succeeded
Succeeded(made) == made # <<>> /\ \A i \in 1..Len(made) : made[i].ok

\* validate_birth_date rejected the date, or a conversion raised
Rejected(made) == \E i \in 1..Len(made) : ~made[i].ok

\* C19: for a date typed as a text message in convert or age state, after a
\* successful conversion or age reply awaiting_date and input_mode are both
\* None; after a rejected birth date or a conversion error an error reply is
\* sent and awaiting_date and input_mode are unchanged.
C19_IdleAfterSuccessOnly ==
    [][DateTyped =>
          /\ (Succeeded(calls') \/ ResultReplied(replies')) =>
                /\ Succeeded(calls') /\ ResultReplied(replies') /\ ~ErrorReplied(replies')
                /\ user_data'.awaiting_date = None
                /\ user_data'.input_mode = None
          /\ (Rejected(calls') \/ ErrorReplied(replies')) =>
                /\ Rejected(calls') /\ ErrorReplied(replies') /\ ~ResultReplied(replies')
                /\ user_data'.awaiting_date = user_data.awaiting_date
                /\ user_data'.input_mode = user_data.input_mode]_vars

\* C19 witness: the birth date 2024-02-29 was rejected as a future date, and
\* the session still awaits a birth date of the Gregorian calendar
C19_Witness ==
    /\ update = Update("text", <<"2", "0", "2", "4", "-", "0", "2", "-", "2", "9">>)
    /\ Rejected(calls)
    /\ ErrorReplied(replies)
    /\ user_data.awaiting_date = "age"
    /\ user_data.input_mode = "greg"

-----------------------------------------------------------------------------
(* Claims about the replies to a text message *)

\* C20: every text message gets a response.  Each text handled by handle_text
\* results in at least one reply to the sender before the handler returns; in
\* particular a well-formed YYYY-MM-DD text sent while awaiting_date is convert
\* or age is answered with a result or an error.
C20_EveryTextAnswered ==
    update.kind = "text" => \E i \in 1..Len(replies) : replies[i].chat = UserId

-----------------------------------------------------------------------------
(* Claims about the direct-<calendar> buttons *)

\* the last update is a pressed direct-<calendar> button
DirectHandled == update.kind = "callback" /\ update.payload[1] = "direct"

\* C21: a direct-<calendar> button press leaves no leftover session state.
\* After button_handler handled a direct-<calendar> callback, whether a pending
\* date was found or not and whether its conversion succeeded or failed,
\* awaiting_date, input_mode and pending_date are all None.
C21_DirectLeavesNothing ==
    DirectHandled =>
        /\ user_data.awaiting_date = None
        /\ user_data.input_mode = None
        /\ user_data.pending_date = NoneText

\* the step handles a direct-<calendar> button of a request that was cancelled
\* or has produced its result
StaleDirectPressed ==
    /\ direct_request \in {"cancelled", "completed"}
    /\ update'.kind = "callback"
    /\ update'.payload[1] = "direct"
    /\ ButtonPressed

\* C22: a cancelled or completed operation cannot be completed later by a
\* stale button.  Once a direct-date request has been cancelled or has produced
\* its result, pressing one of its old direct-<calendar> buttons performs no
\* conversion and does not change awaiting_date of any operation the user has
\* started since.
C22_StaleButtonDoesNothing ==
    [][StaleDirectPressed =>
          /\ calls' = <<>>
          /\ user_data.awaiting_date # None =>
                user_data'.awaiting_date = user_data.awaiting_date]_vars

====
